---- MODULE Spec2Model ----
(***************************************************************************)
(* Register-protocol drivers on one shared I2C bus:                        *)
(*   - Sparkfun_QwiicTwist (sparkfun_qwiictwist.py), the rotary encoder;   *)
(*   - WiiChuckBase (wiichuck/__init__.py), the motion accessory.          *)
(* The encoder is a register file behind a register pointer; each driver  *)
(* method is a sequence of primitives, each of which takes the bus lock    *)
(* (the `with self._device` block), writes, possibly reads, and unlocks.   *)
(***************************************************************************)
EXTENDS Integers, Sequences, FiniteSets, TLC

VARIABLES
    lock,       \* holder of the bus lock: "free", "twist" or "chuck"
    regs,       \* the encoder's register file, offset -> byte
    ptr,        \* the encoder's register pointer (set by the first byte written)
    devAddr,    \* the I2C address the encoder answers on
    device,     \* self._device: the address the encoder handle is bound to
    pc,         \* the encoder client's position inside the running method
    op,         \* the running (or last) method and its arguments
    stage,      \* how many primitives of the method have completed
    val,        \* the method's local: the value returned by its read primitive
    ret,        \* outcome of the last method: returned value or raised fault
    log,        \* bus events since the running method was called
    deviceAtCall, \* history: the binding when the running method was called
    lastTrue,   \* history: argument of the last change_address that returned True
    calls,      \* number of encoder methods called so far
    prev,       \* history: the method called before the running one, and its outcome
    faults,     \* number of transfer faults injected so far
    cpc,        \* the motion-accessory client's position
    buffer,     \* self.buffer: identity and contents of the 8-byte buffer
    i2c_read_delay,  \* self._i2c_read_delay in microseconds
    cret,       \* outcome of the motion-accessory client's last call
    clog,       \* bus events since the accessory client's running call began
    nextId,     \* next fresh object identity (allocation counter)
    reads       \* number of accessory reads called so far

vars == <<lock, regs, ptr, devAddr, device, pc, op, stage, val, ret, log,
          deviceAtCall, lastTrue, calls, prev, faults,
          cpc, buffer, i2c_read_delay, cret, clog, nextId, reads>>

twistVars == <<regs, ptr, devAddr, device, pc, op, stage, val, ret, log,
               deviceAtCall, lastTrue, calls, prev>>

chuckVars == <<cpc, buffer, i2c_read_delay, cret, clog, nextId, reads>>

(***************************************************************************)
(* Bounds of the model.                                                    *)
(***************************************************************************)
MaxCalls == 2

MaxValueCalls == 1

MaxBusCalls == 1

MaxFaults == 1

MaxReads == 2

(***************************************************************************)
(* Program constants.                                                      *)
(***************************************************************************)
QWIIC_TWIST_ADDR == 63

QWIIC_TWIST_ADDR_ALT == 62

QWIIC_TWIST_ID == 92

BUTTON_CLICKED_BIT == 2

BUTTON_PRESSED_BIT == 1

ENCODER_MOVED_BIT == 0

TWIST_ID == 0

TWIST_STATUS == 1

TWIST_VERSION == 2

TWIST_COUNT == 5

TWIST_DIFFERENCE == 7

TWIST_LAST_ENCODER_EVENT == 9

TWIST_LAST_BUTTON_EVENT == 11

TWIST_RED == 13

TWIST_GREEN == 14

TWIST_BLUE == 15

TWIST_CONNECT_RED == 16

TWIST_CONNECT_GREEN == 18

TWIST_CONNECT_BLUE == 20

TWIST_TURN_INT_TIMEOUT == 22

TWIST_CHANGE_ADDRESS == 24

AddressMin == 8

AddressMax == 119

SettleMicros == 1000000

I2C_INIT_DELAY == 100000

DefaultReadDelay == 2000

ChuckAddr == 82

BufferLen == 8

LastRegister == 24

(***************************************************************************)
(* Python's integer operators on unbounded two's-complement integers.      *)
(***************************************************************************)
RECURSIVE BitAnd(_, _)
BitAnd(a, b) ==
    IF a = 0 \/ b = 0 THEN 0
    ELSE IF a = -1 THEN b
    ELSE IF b = -1 THEN a
    ELSE (a % 2) * (b % 2) + 2 * BitAnd(a \div 2, b \div 2)

RECURSIVE BitOr(_, _)
BitOr(a, b) ==
    IF a = 0 THEN b
    ELSE IF b = 0 THEN a
    ELSE IF a = -1 \/ b = -1 THEN -1
    ELSE (IF a % 2 = 1 \/ b % 2 = 1 THEN 1 ELSE 0)
         + 2 * BitOr(a \div 2, b \div 2)

Invert(a) == -a - 1

Shl(a, n) == a * (2 ^ n)

Shr(a, n) == a \div (2 ^ n)

Byte(a) == BitAnd(a, 255)

\* bool(x) of an integer
Bool(x) == x # 0

\* str(n) of an integer: its decimal digits, a sign in front when negative
DigitChar(d) == <<"0", "1", "2", "3", "4", "5", "6", "7", "8", "9">>[d + 1]

RECURSIVE str(_)
str(n) ==
    IF n < 0 THEN <<"-">> \o str(-n)
    ELSE IF n < 10 THEN <<DigitChar(n)>>
    ELSE Append(str(n \div 10), DigitChar(n % 10))

(***************************************************************************)
(* Private helpers of sparkfun_qwiictwist.py.                              *)
(***************************************************************************)
\* a slip: the sign boundary is taken one too high
signed_int16_above(value) ==
    IF value > Shl(1, 15) THEN value - Shl(1, 16) ELSE value

signed_int16(value) ==
    IF BitAnd(value, Shl(1, 15)) # 0 THEN value - Shl(1, 16) ELSE value

\* the bytes each primitive hands to device.write
read_register8_bytes(addr) == <<Byte(addr)>>


\* a slip: the value is sent without masking it to a byte
write_register8_bytes_unmasked(addr, value) == <<Byte(addr), value>>

write_register8_bytes(addr, value) == <<Byte(addr), Byte(value)>>

read_register16_bytes(addr) == <<Byte(addr)>>


\* a slip: the high byte is sent first
write_register16_bytes_msb_first(addr, value) ==
    <<Byte(addr), Byte(Shr(value, 8)), Byte(value)>>

write_register16_bytes(addr, value) ==
    <<Byte(addr), Byte(value), Byte(Shr(value, 8))>>

write_register24_bytes(addr, value) ==
    <<Byte(addr), Byte(Shr(value, 16)), Byte(Shr(value, 8)), Byte(value)>>

\* what each read primitive returns from the bytes read into `result`
read_register8_value(result) == result[1]

read_register16_value(result) == BitOr(Shl(result[2], 8), result[1])

(***************************************************************************)
(* A method is a sequence of steps; Step names one of them.                *)
(*   kind: read8 write8 read16 write16 write24 (primitives), sleep,        *)
(*         rebind (I2CDevice(self._i2c, new_address)), done (return).      *)
(***************************************************************************)
Step(kind, addr, value) == [kind |-> kind, addr |-> addr, value |-> value]

Done == Step("done", 0, 0)

WriteBytes(s) ==
    CASE s.kind = "read8"   -> read_register8_bytes(s.addr)
      [] s.kind = "write8"  -> write_register8_bytes(s.addr, s.value)
      [] s.kind = "read16"  -> read_register16_bytes(s.addr)
      [] s.kind = "write16" -> write_register16_bytes(s.addr, s.value)
      [] s.kind = "write24" -> write_register24_bytes(s.addr, s.value)

ReadLen(s) ==
    CASE s.kind = "read8"  -> 1
      [] s.kind = "read16" -> 2
      [] OTHER             -> 0

ReadValue(s, result) ==
    CASE s.kind = "read8"  -> read_register8_value(result)
      [] s.kind = "read16" -> read_register16_value(result)

(***************************************************************************)
(* The methods of Sparkfun_QwiicTwist: the step a method takes once `st`   *)
(* of its steps have completed, `v` being the value its read returned.     *)
(***************************************************************************)
\* a method that is one primitive and a return
OnePrimitive(s, st) ==
    CASE st = 0 -> s
      [] OTHER  -> Done

\* `if self._read_register8(_TWIST_ID) != QWIIC_TWIST_ID: return False`
connected_value(id) == IF id # QWIIC_TWIST_ID THEN FALSE ELSE TRUE

connected(st) == OnePrimitive(Step("read8", TWIST_ID, 0), st)

\* a slip: the two bytes of the version are taken the other way round
version_string_swapped(value) ==
    LET major == BitAnd(Shr(value, 8), 255)
        minor == BitAnd(value, 255)
    IN  <<"v">> \o str(major) \o <<".">> \o str(minor)

\* "v" + str(major) + "." + str(minor), a string being its characters
version_string(value) ==
    LET major == BitAnd(value, 255)
        minor == BitAnd(Shr(value, 8), 255)
    IN  <<"v">> \o str(major) \o <<".">> \o str(minor)

version(st) == OnePrimitive(Step("read16", TWIST_VERSION, 0), st)

\* a slip: the timer is cleared after it is read
time_since_last_movement_clearing(st) ==
    CASE st = 0 -> Step("read16", TWIST_LAST_ENCODER_EVENT, 0)
      [] st = 1 -> Step("write16", TWIST_LAST_ENCODER_EVENT, 0)
      [] OTHER  -> Done

time_since_last_movement(st) ==
    OnePrimitive(Step("read16", TWIST_LAST_ENCODER_EVENT, 0), st)

time_since_last_press(st) ==
    OnePrimitive(Step("read16", TWIST_LAST_BUTTON_EVENT, 0), st)

count(st) == OnePrimitive(Step("read16", TWIST_COUNT, 0), st)

count_setter(value, st) == OnePrimitive(Step("write16", TWIST_COUNT, value), st)

red(st) == OnePrimitive(Step("read8", TWIST_RED, 0), st)

red_setter(value, st) == OnePrimitive(Step("write8", TWIST_RED, value), st)

green(st) == OnePrimitive(Step("read8", TWIST_GREEN, 0), st)

green_setter(value, st) == OnePrimitive(Step("write8", TWIST_GREEN, value), st)

blue(st) == OnePrimitive(Step("read8", TWIST_BLUE, 0), st)

blue_setter(value, st) == OnePrimitive(Step("write8", TWIST_BLUE, value), st)

red_connection(st) == OnePrimitive(Step("read16", TWIST_CONNECT_RED, 0), st)

red_connection_setter(value, st) ==
    OnePrimitive(Step("write16", TWIST_CONNECT_RED, value), st)

green_connection(st) == OnePrimitive(Step("read16", TWIST_CONNECT_GREEN, 0), st)

green_connection_setter(value, st) ==
    OnePrimitive(Step("write16", TWIST_CONNECT_GREEN, value), st)

blue_connection(st) == OnePrimitive(Step("read16", TWIST_CONNECT_BLUE, 0), st)

blue_connection_setter(value, st) ==
    OnePrimitive(Step("write16", TWIST_CONNECT_BLUE, value), st)

int_timeout(st) == OnePrimitive(Step("read16", TWIST_TURN_INT_TIMEOUT, 0), st)

int_timeout_setter(value, st) ==
    OnePrimitive(Step("write16", TWIST_TURN_INT_TIMEOUT, value), st)

\* the 8-bit primitives called on their own
read_register8(addr, st) == OnePrimitive(Step("read8", addr, 0), st)

write_register8(addr, value, st) == OnePrimitive(Step("write8", addr, value), st)


\* a slip: the write-back clears every flag, not only the one read
flag_writeback_clears_all(status, bit) == 0

\* status & ~(1 << bit): the value a flag accessor writes back
flag_writeback(status, bit) == BitAnd(status, Invert(Shl(1, bit)))

\* bool(status & (1 << bit)): the value a flag accessor returns
flag_value(status, bit) == Bool(BitAnd(status, Shl(1, bit)))

flag_accessor(bit, st, v) ==
    CASE st = 0 -> Step("read8", TWIST_STATUS, 0)
      [] st = 1 -> Step("write8", TWIST_STATUS, flag_writeback(v, bit))
      [] OTHER  -> Done

moved(st, v) == flag_accessor(ENCODER_MOVED_BIT, st, v)

pressed(st, v) == flag_accessor(BUTTON_PRESSED_BIT, st, v)

clicked(st, v) == flag_accessor(BUTTON_CLICKED_BIT, st, v)


\* a slip: the accumulator is reset before it is read
difference_reset_first(st, v) ==
    CASE st = 0 -> Step("write16", TWIST_DIFFERENCE, 0)
      [] st = 1 -> Step("read16", TWIST_DIFFERENCE, 0)
      [] OTHER  -> Done

difference(st, v) ==
    CASE st = 0 -> Step("read16", TWIST_DIFFERENCE, 0)
      [] st = 1 -> Step("write16", TWIST_DIFFERENCE, 0)
      [] OTHER  -> Done

clear_interrupts(st) ==
    CASE st = 0 -> Step("write8", TWIST_STATUS, 0)
      [] OTHER  -> Done


\* a slip: the components are packed without masking
set_color_value_unmasked(r, g, b) == BitOr(BitOr(Shl(r, 16), Shl(g, 8)), b)

\* (red & 0xFF) << 16 | (green & 0xFF) << 8 | blue & 0xFF
set_color_value(r, g, b) ==
    BitOr(BitOr(Shl(BitAnd(r, 255), 16), Shl(BitAnd(g, 255), 8)), BitAnd(b, 255))

set_color(r, g, b, st) ==
    CASE st = 0 -> Step("write24", TWIST_RED, set_color_value(r, g, b))
      [] OTHER  -> Done

connect_color(r, g, b, st) ==
    CASE st = 0 -> Step("write16", TWIST_CONNECT_RED, r)
      [] st = 1 -> Step("write16", TWIST_CONNECT_GREEN, g)
      [] st = 2 -> Step("write16", TWIST_CONNECT_BLUE, b)
      [] OTHER  -> Done


\* a slip: the range check rejects its own end points
address_valid_exclusive(new_address) ==
    ~(new_address <= AddressMin \/ new_address >= AddressMax)

\* the range check at the head of change_address
address_valid(new_address) ==
    ~(new_address < AddressMin \/ new_address > AddressMax)

change_address(new_address, st) ==
    IF ~address_valid(new_address) THEN Done
    ELSE CASE st = 0 -> Step("write8", TWIST_CHANGE_ADDRESS, new_address)
           [] st = 1 -> Step("sleep", 0, SettleMicros)
           [] st = 2 -> Step("rebind", new_address, 0)
           [] OTHER  -> Done


\* a slip: the new handle is never stored
rebind_device_never(old, new_address, constructed) == old

\* a slip: the handle is replaced before the new one is known to exist
rebind_device_early(old, new_address, constructed) == new_address

\* a slip: a failed construction falls back to the default address
rebind_device_default(old, new_address, constructed) ==
    IF constructed THEN new_address ELSE QWIIC_TWIST_ADDR

\* self._device after the try/except around I2CDevice(self._i2c, new_address)
rebind_device(old, new_address, constructed) ==
    IF constructed THEN new_address ELSE old

Method(name, a, b, c) == [name |-> name, a |-> a, b |-> b, c |-> c]

Body(o, st, v) ==
    CASE o.name = "moved"            -> moved(st, v)
      [] o.name = "pressed"          -> pressed(st, v)
      [] o.name = "clicked"          -> clicked(st, v)
      [] o.name = "difference"       -> difference(st, v)
      [] o.name = "clear_interrupts" -> clear_interrupts(st)
      [] o.name = "set_color"        -> set_color(o.a, o.b, o.c, st)
      [] o.name = "connect_color"    -> connect_color(o.a, o.b, o.c, st)
      [] o.name = "change_address"   -> change_address(o.a, st)
      [] o.name = "signed_int16"     -> Done
      [] o.name = "connected"        -> connected(st)
      [] o.name = "version"          -> version(st)
      [] o.name = "time_since_last_movement" -> time_since_last_movement(st)
      [] o.name = "time_since_last_press"    -> time_since_last_press(st)
      [] o.name = "count"            -> count(st)
      [] o.name = "count.setter"     -> count_setter(o.a, st)
      [] o.name = "red"              -> red(st)
      [] o.name = "red.setter"       -> red_setter(o.a, st)
      [] o.name = "green"            -> green(st)
      [] o.name = "green.setter"     -> green_setter(o.a, st)
      [] o.name = "blue"             -> blue(st)
      [] o.name = "blue.setter"      -> blue_setter(o.a, st)
      [] o.name = "red_connection"   -> red_connection(st)
      [] o.name = "red_connection.setter"   -> red_connection_setter(o.a, st)
      [] o.name = "green_connection" -> green_connection(st)
      [] o.name = "green_connection.setter" -> green_connection_setter(o.a, st)
      [] o.name = "blue_connection"  -> blue_connection(st)
      [] o.name = "blue_connection.setter"  -> blue_connection_setter(o.a, st)
      [] o.name = "int_timeout"      -> int_timeout(st)
      [] o.name = "int_timeout.setter"      -> int_timeout_setter(o.a, st)
      [] o.name = "read_register8"   -> read_register8(o.a, st)
      [] o.name = "write_register8"  -> write_register8(o.a, o.b, st)

\* outcomes: k is "bool", "int", "none" (returned None), "raise" (a fault
\* propagated), "running" (no outcome yet), "init" (nothing called yet),
\* "str" (a string, as its characters) or "buf" (the identity of a buffer)
Outcome(k, v) == [k |-> k, v |-> v]

Raised == Outcome("raise", 0)

\* what the method returns when its last step has completed
Result(o, st, v) ==
    CASE o.name = "moved"          -> Outcome("bool", flag_value(v, ENCODER_MOVED_BIT))
      [] o.name = "pressed"        -> Outcome("bool", flag_value(v, BUTTON_PRESSED_BIT))
      [] o.name = "clicked"        -> Outcome("bool", flag_value(v, BUTTON_CLICKED_BIT))
      [] o.name = "difference"     -> Outcome("int", signed_int16(v))
      [] o.name = "change_address" -> Outcome("bool", st > 0)
      [] o.name = "signed_int16"   -> Outcome("int", signed_int16(o.a))
      [] o.name = "connected"      -> Outcome("bool", connected_value(v))
      [] o.name = "version"        -> Outcome("str", version_string(v))
      [] o.name \in {"time_since_last_movement", "time_since_last_press"}
                                   -> Outcome("int", v)
      [] o.name \in {"count", "red_connection", "green_connection",
                     "blue_connection", "int_timeout"}
                                   -> Outcome("int", signed_int16(v))
      [] o.name \in {"red", "green", "blue", "read_register8"}
                                   -> Outcome("int", v)
      [] OTHER                     -> Outcome("none", 0)

PcFor(s) ==
    CASE s.kind = "done"   -> "idle"
      [] s.kind = "sleep"  -> "sleep"
      [] s.kind = "rebind" -> "rebind"
      [] OTHER             -> "enter"

(***************************************************************************)
(* The bus and the encoder device behind it.                               *)
(***************************************************************************)
Event(who, kind, to, data, ok) ==
    [who |-> who, kind |-> kind, to |-> to, data |-> data, ok |-> ok]


\* a slip: the lock is not released when the block is left by an exception
with_exit_leak(holder, raised) == IF raised THEN holder ELSE "free"

\* the lock after the `with` block is left, normally or by an exception
with_exit(holder, raised) == "free"

\* the register file after the device has taken a write: the first byte
\* sets the pointer, the rest go to consecutive registers
DeviceWrite(r, bytes) ==
    [i \in DOMAIN r |->
        IF i >= bytes[1] /\ i - bytes[1] + 2 <= Len(bytes)
        THEN bytes[i - bytes[1] + 2] ELSE r[i]]

\* the n bytes the device returns from its pointer on
DeviceRead(r, p, n) ==
    [i \in 1..n |-> IF p + i - 1 \in DOMAIN r THEN r[p + i - 1] ELSE 0]

\* the addresses the device may answer on after a write: a write to the
\* address register re-addresses it, unless the device ignores it
DeviceAddrAfter(cur, bytes) ==
    IF Len(bytes) >= 2 /\ bytes[1] = TWIST_CHANGE_ADDRESS
    THEN {cur, bytes[2]} ELSE {cur}

FaultChoice == IF faults < MaxFaults THEN {FALSE, TRUE} ELSE {FALSE}

(***************************************************************************)
(* Initial states: the encoder answers on the address the handle was       *)
(* constructed with; nothing has been called; the accessory client has not *)
(* been constructed.                                                       *)
(***************************************************************************)
InitRegs(status, diff) ==
    [i \in 0..LastRegister |->
        CASE i = TWIST_ID             -> QWIIC_TWIST_ID
          [] i = TWIST_STATUS         -> status
          [] i = TWIST_VERSION        -> 1
          [] i = TWIST_VERSION + 1    -> 2
          [] i = TWIST_DIFFERENCE     -> diff % 256
          [] i = TWIST_DIFFERENCE + 1 -> diff \div 256
          [] OTHER                    -> 0]

\* a register file in which every 16-bit register holds lo, hi (low byte
\* first) and every 8-bit colour register holds lo
RegImage(id, lo, hi) ==
    [i \in 0..LastRegister |->
        CASE i = TWIST_ID -> id
          [] i \in {TWIST_VERSION, TWIST_COUNT, TWIST_DIFFERENCE,
                    TWIST_LAST_ENCODER_EVENT, TWIST_LAST_BUTTON_EVENT,
                    TWIST_RED, TWIST_GREEN, TWIST_BLUE,
                    TWIST_CONNECT_RED, TWIST_CONNECT_GREEN, TWIST_CONNECT_BLUE,
                    TWIST_TURN_INT_TIMEOUT} -> lo
          [] i \in {TWIST_VERSION + 1, TWIST_COUNT + 1, TWIST_DIFFERENCE + 1,
                    TWIST_LAST_ENCODER_EVENT + 1, TWIST_LAST_BUTTON_EVENT + 1,
                    TWIST_CONNECT_RED + 1, TWIST_CONNECT_GREEN + 1,
                    TWIST_CONNECT_BLUE + 1, TWIST_TURN_INT_TIMEOUT + 1} -> hi
          [] OTHER -> 0]

InitFrom(images, addrs) ==
    /\ lock = "free"
    /\ regs \in images
    /\ ptr = 0
    /\ \E a \in addrs : devAddr = a /\ device = a /\ deviceAtCall = a
    /\ pc = "idle"
    /\ op = Method("none", 0, 0, 0)
    /\ stage = 0
    /\ val = 0
    /\ ret = Outcome("init", 0)
    /\ log = <<>>
    /\ lastTrue = 0
    /\ calls = 0
    /\ prev = [op |-> Method("none", 0, 0, 0), ret |-> Outcome("init", 0)]
    /\ faults = 0
    /\ cpc = [call |-> "none", i |-> 0]
    /\ buffer = [id |-> 0, data |-> <<>>]
    /\ i2c_read_delay = 0
    /\ cret = Outcome("init", 0)
    /\ clog = <<>>
    /\ nextId = 1
    /\ reads = 0

InitWith(statuses, diffs, addrs) ==
    InitFrom({ InitRegs(s, d) : s \in statuses, d \in diffs }, addrs)

(***************************************************************************)
(* The encoder client.                                                     *)
(***************************************************************************)
\* A caller invokes method o.  A method whose first step is `done` (the
\* range check of change_address failed) returns at once.
Call(o, limit) ==
    /\ pc = "idle"
    /\ calls < limit
    /\ calls' = calls + 1
    /\ prev' = [op |-> op, ret |-> ret]
    /\ op' = o
    /\ stage' = 0
    /\ val' = 0
    /\ log' = <<>>
    /\ deviceAtCall' = device
    /\ pc' = PcFor(Body(o, 0, 0))
    /\ ret' = IF Body(o, 0, 0).kind = "done" THEN Result(o, 0, 0)
              ELSE Outcome("running", 0)
    /\ UNCHANGED <<lock, regs, ptr, devAddr, device, lastTrue, faults>>
    /\ UNCHANGED chuckVars


\* a slip: the primitive runs without taking the bus lock
EnterUnlocked ==
    /\ pc = "enter"
    /\ pc' = "write"
    /\ UNCHANGED <<lock, regs, ptr, devAddr, device, op, stage, val, ret, log,
                   deviceAtCall, lastTrue, calls, prev, faults>>
    /\ UNCHANGED chuckVars

\* `with self._device as device:` I2CDevice.__enter__ spins on try_lock
Enter ==
    /\ pc = "enter"
    /\ lock = "free"
    /\ lock' = "twist"
    /\ pc' = "write"
    /\ UNCHANGED <<regs, ptr, devAddr, device, op, stage, val, ret, log,
                   deviceAtCall, lastTrue, calls, prev, faults>>
    /\ UNCHANGED chuckVars

\* the method moves on after its step number `stage` has completed with
\* local value v
Advance(v) ==
    /\ stage' = stage + 1
    /\ val' = v
    /\ pc' = PcFor(Body(op, stage + 1, v))
    /\ ret' = IF Body(op, stage + 1, v).kind = "done"
              THEN Result(op, stage + 1, v) ELSE ret


\* a slip: a fault is swallowed and the method carries on
RaiseSwallowed == Advance(val)

\* a fault propagates out of the method to its caller
Raise ==
    /\ pc' = "idle"
    /\ ret' = Raised
    /\ UNCHANGED <<stage, val>>

\* device.write(bytes([...])) inside the `with` block.  The transfer faults
\* when the bus faults or when no device answers on the handle's address.
WritePhase ==
    /\ pc = "write"
    /\ \E f \in FaultChoice :
        LET s     == Body(op, stage, val)
            bytes == WriteBytes(s)
            ok    == ~f /\ devAddr = device
        IN  /\ faults' = IF f THEN faults + 1 ELSE faults
            /\ log' = Append(log, Event("twist", "write", device, bytes, ok))
            /\ IF ok
               THEN /\ regs' = DeviceWrite(regs, bytes)
                    /\ ptr' = bytes[1]
                    /\ devAddr' \in DeviceAddrAfter(devAddr, bytes)
                    /\ IF ReadLen(s) > 0
                       THEN /\ pc' = "read"
                            /\ UNCHANGED <<lock, stage, val, ret>>
                       ELSE /\ lock' = with_exit("twist", FALSE)
                            /\ Advance(val)
               ELSE /\ lock' = with_exit("twist", TRUE)
                    /\ Raise
                    /\ UNCHANGED <<regs, ptr, devAddr>>
    /\ UNCHANGED <<device, op, deviceAtCall, lastTrue, calls, prev>>
    /\ UNCHANGED chuckVars

\* device.readinto(result), then the end of the `with` block
ReadPhase ==
    /\ pc = "read"
    /\ \E f \in FaultChoice :
        LET s    == Body(op, stage, val)
            ok   == ~f /\ devAddr = device
            data == IF ok THEN DeviceRead(regs, ptr, ReadLen(s)) ELSE <<>>
        IN  /\ faults' = IF f THEN faults + 1 ELSE faults
            /\ log' = Append(log, Event("twist", "read", device, data, ok))
            /\ IF ok
               THEN /\ lock' = with_exit("twist", FALSE)
                    /\ Advance(ReadValue(s, data))
               ELSE /\ lock' = with_exit("twist", TRUE)
                    /\ Raise
    /\ UNCHANGED <<regs, ptr, devAddr, device, op, deviceAtCall, lastTrue, calls, prev>>
    /\ UNCHANGED chuckVars

\* sleep(1) in change_address
Sleep ==
    /\ pc = "sleep"
    /\ log' = Append(log, Event("twist", "sleep", 0,
                                <<Body(op, stage, val).value>>, TRUE))
    /\ Advance(val)
    /\ UNCHANGED <<lock, regs, ptr, devAddr, device, op, deviceAtCall,
                   lastTrue, calls, prev, faults>>
    /\ UNCHANGED chuckVars

\* a slip: the handle is constructed without probing the address, so the
\* construction always succeeds
RebindUnprobed ==
    /\ pc = "rebind"
    /\ lock = "free"
    /\ device' = rebind_device(device, Body(op, stage, val).addr, TRUE)
    /\ lastTrue' = Body(op, stage, val).addr
    /\ Advance(val)
    /\ UNCHANGED <<lock, regs, ptr, devAddr, op, deviceAtCall, calls, prev,
                   log, faults>>
    /\ UNCHANGED chuckVars

\* self._device = I2CDevice(self._i2c, new_address) under try/except
\* ValueError: the constructor probes the address under the bus lock and
\* raises ValueError when nothing answers.
Rebind ==
    /\ pc = "rebind"
    /\ lock = "free"
    /\ \E f \in FaultChoice :
        LET new == Body(op, stage, val).addr
            ok  == ~f /\ devAddr = new
        IN  /\ faults' = IF f THEN faults + 1 ELSE faults
            /\ log' = Append(log, Event("twist", "probe", new, <<>>, ok))
            /\ device' = rebind_device(device, new, ok)
            /\ IF ok
               THEN /\ Advance(val)
                    /\ lastTrue' = new
               ELSE /\ pc' = "idle"
                    /\ ret' = Outcome("bool", FALSE)
                    /\ UNCHANGED <<stage, val, lastTrue>>
    /\ UNCHANGED <<lock, regs, ptr, devAddr, op, deviceAtCall, calls, prev>>
    /\ UNCHANGED chuckVars

\* The device records an event: it sets a bit of its status register.  It
\* does so on its own, whatever the client is doing on the bus.
DeviceEvent(bit) ==
    /\ BitAnd(regs[TWIST_STATUS], Shl(1, bit)) = 0
    /\ regs' = [regs EXCEPT ![TWIST_STATUS] = BitOr(regs[TWIST_STATUS], Shl(1, bit))]
    /\ UNCHANGED <<lock, ptr, devAddr, device, pc, op, stage, val, ret, log,
                   deviceAtCall, lastTrue, calls, prev, faults>>
    /\ UNCHANGED chuckVars

(***************************************************************************)
(* The motion-accessory client, WiiChuckBase.                              *)
(*   cpc.call: "none" (not constructed), "init" (inside __init__), "idle", *)
(*   "read" (inside _read_register) or "failed" (__init__ raised);         *)
(*   cpc.i: the step of the call about to run.                             *)
(***************************************************************************)
\* a slip: the two configuration writes are sent in the other order
init_steps_reversed ==
    << Step("sleep", 0, I2C_INIT_DELAY),
       Step("enter", 0, 0),
       Step("write", 0, <<251, 0>>),
       Step("sleep", 0, I2C_INIT_DELAY),
       Step("write", 0, <<240, 85>>) >>

\* __init__ after the device handle exists: sleep, then the `with` block
init_steps ==
    << Step("sleep", 0, I2C_INIT_DELAY),
       Step("enter", 0, 0),
       Step("write", 0, <<240, 85>>),
       Step("sleep", 0, I2C_INIT_DELAY),
       Step("write", 0, <<251, 0>>) >>

\* _read_register(address): the `with` block
read_register_steps(address, delay) ==
    << Step("enter", 0, 0),
       Step("write", 0, address),
       Step("sleep", 0, delay),
       Step("readinto", 0, 0) >>

\* _read_data: self._read_register(b"\x00")
read_data_address == <<0>>


\* a slip: every read allocates a new buffer
read_register_buffer_fresh(self_buffer, fresh) == fresh

\* the object readinto fills and _read_register returns: self.buffer
read_register_buffer(self_buffer, fresh) == self_buffer

ChuckSteps ==
    IF cpc.call = "init" THEN init_steps
    ELSE IF cpc.call = "read" THEN read_register_steps(read_data_address, i2c_read_delay)
    ELSE <<>>

ChuckStep == ChuckSteps[cpc.i]

ChuckAt(kind) ==
    /\ cpc.call \in {"init", "read"}
    /\ ChuckStep.kind = kind

\* a transaction of the accessory client is seen by a running encoder method
Foreign(e) == IF pc # "idle" THEN Append(log, e) ELSE log

\* the delays a caller may construct the client with, in microseconds
ReadDelays == {0, 100, 200, DefaultReadDelay}

\* what the accessory answers to an 8-byte read
ChuckSamples == { <<128, 128, 0, 0, 0, 0, 0, 3>>, <<1, 2, 3, 4, 5, 6, 7, 8>> }

\* WiiChuckBase(i2c, i2c_read_delay=delay) up to the first sleep: allocate
\* the buffer, construct the device handle (which probes the address)
ChuckConstruct(delays) ==
    /\ cpc.call = "none"
    /\ lock = "free"
    /\ \E delay \in delays, f \in FaultChoice :
        /\ faults' = IF f THEN faults + 1 ELSE faults
        /\ log' = Foreign(Event("chuck", "probe", ChuckAddr, <<>>, ~f))
        /\ clog' = <<Event("chuck", "probe", ChuckAddr, <<>>, ~f)>>
        /\ IF f
           THEN /\ cpc' = [call |-> "failed", i |-> 0]
                /\ cret' = Raised
                /\ UNCHANGED <<buffer, i2c_read_delay, nextId>>
           ELSE /\ cpc' = [call |-> "init", i |-> 1]
                /\ cret' = Outcome("running", 0)
                /\ buffer' = [id |-> nextId, data |-> [i \in 1..BufferLen |-> 0]]
                /\ nextId' = nextId + 1
                /\ i2c_read_delay' = delay
    /\ UNCHANGED <<lock, regs, ptr, devAddr, device, pc, op, stage, val, ret,
                   deviceAtCall, lastTrue, calls, prev, reads>>

\* the call moves to its next step; after the last one the `with` block
\* ends and the call returns r
ChuckAdvance(r) ==
    IF cpc.i < Len(ChuckSteps)
    THEN /\ cpc' = [cpc EXCEPT !.i = cpc.i + 1]
         /\ UNCHANGED <<lock, cret>>
    ELSE /\ cpc' = [call |-> "idle", i |-> 0]
         /\ lock' = with_exit("chuck", FALSE)
         /\ cret' = r

\* a fault leaves the `with` block and the call; __init__ leaves no object
ChuckRaise ==
    /\ cpc' = [call |-> IF cpc.call = "init" THEN "failed" ELSE "idle", i |-> 0]
    /\ lock' = with_exit("chuck", TRUE)
    /\ cret' = Raised

\* time.sleep(...)
ChuckSleep ==
    /\ ChuckAt("sleep")
    /\ clog' = Append(clog, Event("chuck", "sleep", 0, <<ChuckStep.value>>, TRUE))
    /\ cpc' = [cpc EXCEPT !.i = cpc.i + 1]
    /\ UNCHANGED <<lock, cret, buffer, i2c_read_delay, nextId, reads, faults>>
    /\ UNCHANGED twistVars

\* `with self.i2c_device as i2c:`
ChuckEnter ==
    /\ ChuckAt("enter")
    /\ lock = "free"
    /\ lock' = "chuck"
    /\ cpc' = [cpc EXCEPT !.i = cpc.i + 1]
    /\ UNCHANGED <<buffer, i2c_read_delay, cret, clog, nextId, reads, faults>>
    /\ UNCHANGED twistVars

\* i2c.write(...)
ChuckWrite ==
    /\ ChuckAt("write")
    /\ \E f \in FaultChoice :
        /\ faults' = IF f THEN faults + 1 ELSE faults
        /\ clog' = Append(clog, Event("chuck", "write", ChuckAddr, ChuckStep.value, ~f))
        /\ log' = Foreign(Event("chuck", "write", ChuckAddr, ChuckStep.value, ~f))
        /\ IF f THEN ChuckRaise ELSE ChuckAdvance(Outcome("none", 0))
    /\ UNCHANGED <<buffer, i2c_read_delay, nextId, reads>>
    /\ UNCHANGED <<regs, ptr, devAddr, device, pc, op, stage, val, ret,
                   deviceAtCall, lastTrue, calls, prev>>

\* i2c.readinto(self.buffer); return self.buffer
ChuckReadinto(samples) ==
    /\ ChuckAt("readinto")
    /\ \E f \in FaultChoice, sample \in samples :
        LET target == read_register_buffer(buffer.id, nextId)
            data   == IF f THEN <<>> ELSE sample
        IN  /\ faults' = IF f THEN faults + 1 ELSE faults
            /\ clog' = Append(clog, Event("chuck", "read", ChuckAddr, data, ~f))
            /\ log' = Foreign(Event("chuck", "read", ChuckAddr, data, ~f))
            /\ nextId' = IF target = nextId THEN nextId + 1 ELSE nextId
            /\ IF f
               THEN /\ ChuckRaise
                    /\ buffer' = [buffer EXCEPT !.id = target]
               ELSE /\ ChuckAdvance(Outcome("buf", target))
                    /\ buffer' = [id |-> target, data |-> sample]
    /\ UNCHANGED <<i2c_read_delay, reads>>
    /\ UNCHANGED <<regs, ptr, devAddr, device, pc, op, stage, val, ret,
                   deviceAtCall, lastTrue, calls, prev>>

\* a caller invokes _read_data()
ChuckRead ==
    /\ cpc.call = "idle"
    /\ reads < MaxReads
    /\ reads' = reads + 1
    /\ cpc' = [call |-> "read", i |-> 1]
    /\ cret' = Outcome("running", 0)
    /\ clog' = <<>>
    /\ UNCHANGED <<lock, buffer, i2c_read_delay, nextId, faults>>
    /\ UNCHANGED twistVars

(***************************************************************************)
(* Specifications.                                                         *)
(*   Spec       the encoder client alone, two calls deep                   *)
(*   SpecFlags  the flag accessors from every status byte                  *)
(*   SpecColor  set_color and connect_color over a range of arguments      *)
(*   SpecChuck  the accessory client alone                                 *)
(*   SpecBus    both clients sharing the bus                               *)
(*   SpecSigned _signed_int16 over every 16-bit value                      *)
(*   SpecBytes  an 8-bit write followed by an 8-bit read                    *)
(*   SpecGetters the read-only properties over a range of register files   *)
(*   SpecWords  a 16-bit setter followed by a 16-bit getter                *)
(*   SpecEvents the flag accessors while the device records events         *)
(***************************************************************************)
StatusValues == {0, 5, 7}

\* 16-bit values around zero, the byte boundary and the sign boundary
DifferenceValues == {0, 1, 255, 256, 32767, 32768, 65535}

\* arguments of change_address: below, at and above both ends of the range
AddressValues == {5, 7, 8, 64, 119, 120, 200}

ColorValues == {0, 10, 255, 256, 300, -1}

Method0(names) == { Method(n, 0, 0, 0) : n \in names }

FlagMethods == Method0({"moved", "pressed", "clicked"})

Methods ==
    FlagMethods
    \cup Method0({"difference", "clear_interrupts"})
    \cup { Method("set_color", 10, 20, 30), Method("connect_color", 1, -1, 256) }
    \cup { Method("change_address", a, 0, 0) : a \in AddressValues }

ColorMethods ==
    { Method("set_color", r, g, b) : r, g, b \in ColorValues }
    \cup { Method("connect_color", r, g, b) : r \in {1, -1}, g \in {0, 256}, b \in {-32768, 32767} }

BusMethods ==
    Method0({"moved", "difference"})
    \cup { Method("set_color", 10, 20, 30), Method("connect_color", 1, -1, 256),
           Method("change_address", 64, 0, 0) }

Init == InitWith(StatusValues, DifferenceValues, {QWIIC_TWIST_ADDR})

CallMethod == \E o \in Methods : Call(o, MaxCalls)

Next ==
    \/ CallMethod
    \/ Enter
    \/ WritePhase
    \/ ReadPhase
    \/ Sleep
    \/ Rebind

Spec == Init /\ [][Next]_vars

InitFlags == InitWith(0..255, {0}, {QWIIC_TWIST_ADDR})

CallFlag == \E o \in FlagMethods : Call(o, MaxValueCalls)

NextFlags ==
    \/ CallFlag
    \/ Enter
    \/ WritePhase
    \/ ReadPhase

SpecFlags == InitFlags /\ [][NextFlags]_vars

InitColor == InitWith({0}, {0}, {QWIIC_TWIST_ADDR})

CallColor == \E o \in ColorMethods : Call(o, MaxValueCalls)

NextColor ==
    \/ CallColor
    \/ Enter
    \/ WritePhase

SpecColor == InitColor /\ [][NextColor]_vars

ChuckNew == ChuckConstruct(ReadDelays)

ChuckFill == ChuckReadinto(ChuckSamples)

NextChuck ==
    \/ ChuckNew
    \/ ChuckSleep
    \/ ChuckEnter
    \/ ChuckWrite
    \/ ChuckFill
    \/ ChuckRead

InitChuck == InitWith({0}, {0}, {QWIIC_TWIST_ADDR})

SpecChuck == InitChuck /\ [][NextChuck]_vars

InitBus == InitWith({7}, {65534}, {QWIIC_TWIST_ADDR})

CallBus == \E o \in BusMethods : Call(o, MaxBusCalls)

ChuckNewBus == ChuckConstruct({DefaultReadDelay})

ChuckFillBus == ChuckReadinto({<<1, 2, 3, 4, 5, 6, 7, 8>>})

NextBus ==
    \/ CallBus
    \/ Enter
    \/ WritePhase
    \/ ReadPhase
    \/ Sleep
    \/ Rebind
    \/ ChuckNewBus
    \/ ChuckSleep
    \/ ChuckEnter
    \/ ChuckWrite
    \/ ChuckFillBus
    \/ ChuckRead

SpecBus == InitBus /\ [][NextBus]_vars

\* every value two bytes can hold
Word16 == 0..65535

InitSigned == InitWith({0}, {0}, {QWIIC_TWIST_ADDR})

\* the function is pure: one application per behaviour shows all of it
CallSigned ==
    /\ calls = 0
    /\ \E v \in Word16 : Call(Method("signed_int16", v, 0, 0), MaxValueCalls)

NextSigned == CallSigned

SpecSigned == InitSigned /\ [][NextSigned]_vars

\* every register offset of the device
RegisterOffsets == 0..LastRegister

\* values handed to an 8-bit write: a byte, above the byte range, negative
ByteArguments == {0, 300, -1}

Write8Methods ==
    { Method("write_register8", a, x, 0) : a \in RegisterOffsets, x \in ByteArguments }
    \cup { Method(n, x, 0, 0) : n \in {"red.setter", "green.setter", "blue.setter"},
                               x \in ByteArguments }

Read8Methods ==
    { Method("read_register8", a, 0, 0) : a \in RegisterOffsets }
    \cup Method0({"red", "green", "blue"})

InitBytes == InitWith({0}, {0}, {QWIIC_TWIST_ADDR})

\* the caller writes, then reads, then writes again
CallWrite8 ==
    /\ calls % 2 = 0
    /\ \E o \in Write8Methods : Call(o, MaxCalls)

CallRead8 ==
    /\ calls % 2 = 1
    /\ \E o \in Read8Methods : Call(o, MaxCalls)

NextBytes ==
    \/ CallWrite8
    \/ CallRead8
    \/ Enter
    \/ WritePhase
    \/ ReadPhase

SpecBytes == InitBytes /\ [][NextBytes]_vars

\* bytes of one, two and three decimal digits, and around the sign bit
ByteSamples == {0, 9, 10, 100, 128, 255}

\* the identity register holds the encoder's id, or does not
IdValues == {QWIIC_TWIST_ID, 0}

GetterMethods ==
    Method0({"connected", "version", "time_since_last_movement",
             "time_since_last_press", "count", "red", "green", "blue",
             "red_connection", "green_connection", "blue_connection",
             "int_timeout"})

InitGetters ==
    InitFrom({ RegImage(id, lo, hi) : id \in IdValues, lo, hi \in ByteSamples }
             \cup { InitRegs(0, 0) },
             {QWIIC_TWIST_ADDR})

CallGetter == \E o \in GetterMethods : Call(o, MaxValueCalls)

NextGetters ==
    \/ CallGetter
    \/ Enter
    \/ WritePhase
    \/ ReadPhase

SpecGetters == InitGetters /\ [][NextGetters]_vars

\* signed 16-bit values: both ends, and around zero and the byte boundaries
SignedValues ==
    {-32768, -32767, -257, -256, -255, -129, -128, -1,
     0, 1, 127, 128, 255, 256, 257, 32767}

WordProperties ==
    {"count", "red_connection", "green_connection", "blue_connection", "int_timeout"}

SetterName(n) ==
    CASE n = "count"            -> "count.setter"
      [] n = "red_connection"   -> "red_connection.setter"
      [] n = "green_connection" -> "green_connection.setter"
      [] n = "blue_connection"  -> "blue_connection.setter"
      [] n = "int_timeout"      -> "int_timeout.setter"

Set16Methods ==
    { Method(SetterName(n), v, 0, 0) : n \in WordProperties, v \in SignedValues }

Get16Methods == Method0(WordProperties)

InitWords == InitWith({0}, {0}, {QWIIC_TWIST_ADDR})

\* the caller sets, then gets, then sets again
CallSet16 ==
    /\ calls % 2 = 0
    /\ \E o \in Set16Methods : Call(o, MaxCalls)

CallGet16 ==
    /\ calls % 2 = 1
    /\ \E o \in Get16Methods : Call(o, MaxCalls)

NextWords ==
    \/ CallSet16
    \/ CallGet16
    \/ Enter
    \/ WritePhase
    \/ ReadPhase

SpecWords == InitWords /\ [][NextWords]_vars

EventBits == {ENCODER_MOVED_BIT, BUTTON_PRESSED_BIT, BUTTON_CLICKED_BIT}

EventMethods == FlagMethods \cup Method0({"clear_interrupts"})

InitEvents == InitWith({0}, {0}, {QWIIC_TWIST_ADDR})

CallEvent == \E o \in EventMethods : Call(o, MaxCalls)

DeviceEvents == \E bit \in EventBits : DeviceEvent(bit)

NextEvents ==
    \/ CallEvent
    \/ Enter
    \/ WritePhase
    \/ ReadPhase
    \/ DeviceEvents

SpecEvents == InitEvents /\ [][NextEvents]_vars

(***************************************************************************)
(* Properties.                                                             *)
(***************************************************************************)
\* outcome r is of kind k with value v
Is(r, k, v) == r.k = k /\ r.v = v

Returned(name) == pc = "idle" /\ op.name = name /\ ret.k \notin {"raise", "running", "init"}

BitOf(x, n) == (x \div (2 ^ n)) % 2

FlagBit(name) ==
    CASE name = "moved"   -> 0
      [] name = "pressed" -> 1
      [] name = "clicked" -> 2

IsTransfer(e) == e.kind \in {"write", "read"}

\* C1: a flag accessor that returns has returned True exactly when its bit
\* was set in the status byte s the device held, and leaves the status
\* register equal to s with that one bit cleared and every other bit as in s.
C1_FlagAccessorClearsOnlyItsBit ==
    \A name \in {"moved", "pressed", "clicked"} :
        Returned(name) =>
            LET s == log[2].data[1]
                n == FlagBit(name)
            IN  /\ s \in 0..255
                /\ ret.k = "bool"
                /\ ret.v = (BitOf(s, n) = 1)
                /\ regs[TWIST_STATUS] = s - BitOf(s, n) * (2 ^ n)
                /\ \A m \in (0..7) \ {n} : BitOf(regs[TWIST_STATUS], m) = BitOf(s, m)

C1_Witness ==
    /\ Returned("moved")
    /\ log[2].data = <<7>>
    /\ Is(ret, "bool", TRUE)
    /\ regs[TWIST_STATUS] = 6

\* C2: change_address with an argument below 8 or above 119 returns False
\* with no bus event and the binding unchanged; with an argument in 8..119,
\* the end points included, it does not return at the range check: it goes
\* on to the bus.
C2_OutOfRangeAddressRejected ==
    op.name = "change_address" =>
        IF op.a < 8 \/ op.a > 119
        THEN /\ pc = "idle"
             /\ Is(ret, "bool", FALSE)
             /\ log = <<>>
             /\ device = deviceAtCall
        ELSE pc # "idle" \/ Len(log) >= 1

C2_Witness ==
    /\ op = Method("change_address", 200, 0, 0)
    /\ pc = "idle"
    /\ Is(ret, "bool", FALSE)
    /\ log = <<>>
    /\ calls = 2
    /\ lastTrue = 119

\* C3: a change_address that returns True has issued, in this order, the
\* write [0x18, new] to the old binding, the settle wait and the probe of
\* the new address, and has rebound the handle to the new address; no step
\* of a valid change_address is ever out of that order; and after a True
\* return the binding is that address and every transfer of a later method
\* is addressed to it.
C3_ChangeAddressOrderAndRebind ==
    /\ Returned("change_address") /\ Is(ret, "bool", TRUE) =>
          /\ log = << Event("twist", "write", deviceAtCall, <<24, op.a>>, TRUE),
                      Event("twist", "sleep", 0, <<1000000>>, TRUE),
                      Event("twist", "probe", op.a, <<>>, TRUE) >>
          /\ device = op.a
    /\ op.name = "change_address" =>
          /\ Len(log) <= 3
          /\ \A i \in DOMAIN log : log[i].kind = <<"write", "sleep", "probe">>[i]
          /\ pc # "idle" => device = deviceAtCall
    /\ lastTrue # 0 =>
          /\ device = lastTrue
          /\ op.name # "change_address" =>
                \A i \in DOMAIN log : IsTransfer(log[i]) => log[i].to = lastTrue

C3_Witness ==
    /\ lastTrue = 64
    /\ Returned("difference")
    /\ Len(log) = 3
    /\ \A i \in DOMAIN log : log[i].to = 64 /\ log[i].ok

\* a change_address whose rebind step failed
RebindFailed ==
    /\ pc = "idle"
    /\ op.name = "change_address"
    /\ Len(log) = 3
    /\ ~log[3].ok

\* C4: when the rebind step of change_address fails, the call returns False
\* (it does not raise) and the binding is the one it had before the call;
\* the method called next starts from that same binding, and every transfer
\* of every method is addressed to the binding the method started from.
C4_FailedRebindKeepsBinding ==
    /\ [](RebindFailed => Is(ret, "bool", FALSE) /\ device = deviceAtCall)
    /\ [][RebindFailed /\ pc' # "idle" => deviceAtCall' = deviceAtCall /\ device' = device]_vars
    /\ [](\A i \in DOMAIN log :
            log[i].who = "twist" /\ IsTransfer(log[i]) => log[i].to = deviceAtCall)

C4_Witness ==
    /\ RebindFailed
    /\ Is(ret, "bool", FALSE)
    /\ op.a = 64
    /\ device = QWIIC_TWIST_ADDR

\* the accessory client is inside a `with` block
ChuckInBlock ==
    /\ cpc.call \in {"init", "read"}
    /\ \E i \in 1..(cpc.i - 1) : ChuckSteps[i].kind = "enter"

\* C5: the bus lock is held by a client only while that client is inside a
\* primitive's (or the accessory call's) `with` block: once a primitive or
\* call has finished, by returning or by a fault, the lock is not left with
\* it.
C5_LockReleasedOnEveryExit ==
    /\ lock = "twist" <=> pc \in {"write", "read"}
    /\ lock = "chuck" <=> ChuckInBlock

C5_Witness ==
    /\ pc = "idle"
    /\ ret.k = "raise"
    /\ log[Len(log)].who = "twist"
    /\ log[Len(log)].kind = "read"
    /\ lock = "free"
    /\ cpc.call = "idle"

\* C6: a transfer of the encoder client that faults is the last bus event
\* of its method, and the method has ended with the fault raised to its
\* caller: no later phase, no retry, and no returned value in its place
\* (change_address included).
C6_FaultEndsTheMethod ==
    \A i \in DOMAIN log :
        log[i].who = "twist" /\ IsTransfer(log[i]) /\ ~log[i].ok =>
            /\ i = Len(log)
            /\ pc = "idle"
            /\ ret.k = "raise"

C6_Witness ==
    /\ op.name = "moved"
    /\ pc = "idle"
    /\ ret.k = "raise"
    /\ Len(log) = 2
    /\ log[2].kind = "read"
    /\ ~log[2].ok
    /\ regs[TWIST_STATUS] = 7

MultiPhase == {"moved", "pressed", "clicked", "difference", "connect_color"}

\* C7 as stated: a multi-phase method keeps the bus lock from its first
\* phase to its last, and no transaction of the other client lies between
\* two of its phases.
C7_LockHeldAcrossPhases ==
    op.name \in MultiPhase =>
        /\ pc # "idle" /\ stage >= 1 => lock = "twist"
        /\ \A i, j, k \in DOMAIN log :
              i < j /\ j < k =>
                  ~(log[i].who = "twist" /\ log[j].who = "chuck" /\ log[k].who = "twist")

\* C7 amended: the lock is held for exactly one primitive at a time: it is
\* the encoder client's from the primitive's entry to its last transfer, so
\* a read always follows its own register-select write with no transaction
\* of the other client in between; between two primitives of one method the
\* lock is free.
C7_LockHeldPerPrimitive ==
    /\ lock = "twist" <=> pc \in {"write", "read"}
    /\ \A i \in DOMAIN log :
          log[i].who = "twist" /\ log[i].kind = "read" =>
              /\ i > 1
              /\ log[i - 1].who = "twist"
              /\ log[i - 1].kind = "write"
              /\ Len(log[i - 1].data) = 1

C7_Witness ==
    /\ Returned("moved")
    /\ Len(log) = 4
    /\ log[2].who = "twist" /\ log[2].kind = "read"
    /\ log[3].who = "chuck" /\ log[3].kind = "write"
    /\ log[4].who = "twist" /\ log[4].kind = "write"

\* C8: a difference read that returns has returned the 16-bit value v the
\* device held, as v when v < 32768 and v - 65536 otherwise, and leaves the
\* device's difference register zero; its bus events are the select write,
\* the 2-byte read and then the reset write [0x07, 0, 0], which never comes
\* before the read.
C8_DifferenceReadThenReset ==
    /\ Returned("difference") =>
          LET v == log[2].data[1] + 256 * log[2].data[2]
          IN  /\ v \in 0..65535
              /\ Is(ret, "int", IF v < 32768 THEN v ELSE v - 65536)
              /\ regs[TWIST_DIFFERENCE] = 0
              /\ regs[TWIST_DIFFERENCE + 1] = 0
              /\ Len(log) = 3
              /\ log[3] = Event("twist", "write", device, <<7, 0, 0>>, TRUE)
    /\ op.name = "difference" =>
          \A i \in DOMAIN log :
              /\ i = 1 => log[i].kind = "write" /\ log[i].data = <<7>>
              /\ i = 2 => log[i].kind = "read"
              /\ log[i].data = <<7, 0, 0>> => i = 3

C8_Witness ==
    /\ Returned("difference")
    /\ log[2].data = <<0, 128>>
    /\ Is(ret, "int", -32768)
    /\ regs[TWIST_DIFFERENCE + 1] = 0

\* C9: set_color(r, g, b) puts at most one event on the bus, a write, and
\* when it returns that event is the write of [0x0D, r mod 256, g mod 256,
\* b mod 256] to the bound address: each byte depends on its own component
\* only.
C9_SetColorOneWriteRedFirst ==
    op.name = "set_color" =>
        /\ Len(log) <= 1
        /\ \A i \in DOMAIN log : log[i].kind = "write" /\ Len(log[i].data) = 4
        /\ Returned("set_color") =>
              log = << Event("twist", "write", device,
                             <<13, op.a % 256, op.b % 256, op.c % 256>>, TRUE) >>

C9_Witness ==
    /\ Returned("set_color")
    /\ op = Method("set_color", 10, 300, -1)
    /\ log[1].data = <<13, 10, 44, 255>>
    /\ regs[TWIST_RED] = 10
    /\ regs[TWIST_RED + 1] = 44
    /\ regs[TWIST_RED + 2] = 255

\* an accessory read has returned its buffer
ChuckReadReturned == cpc.call = "idle" /\ reads >= 1 /\ cret.k = "buf"

\* C10: an accessory read that returns has put on the bus, in this order,
\* the write of [0x00], the wait and the read of 8 bytes, and has returned
\* the client's buffer holding those 8 bytes; once the buffer exists its
\* identity never changes and its length is 8.
C10_ReadReusesTheBuffer ==
    /\ [](ChuckReadReturned =>
            /\ Len(clog) = 3
            /\ clog[1] = Event("chuck", "write", ChuckAddr, <<0>>, TRUE)
            /\ clog[2] = Event("chuck", "sleep", 0, <<i2c_read_delay>>, TRUE)
            /\ clog[3].kind = "read" /\ Len(clog[3].data) = 8 /\ clog[3].ok
            /\ cret.v = buffer.id
            /\ buffer.data = clog[3].data)
    /\ [](buffer.id # 0 => Len(buffer.data) = 8)
    /\ [][buffer.id # 0 => buffer'.id = buffer.id]_vars

C10_Witness ==
    /\ ChuckReadReturned
    /\ reads = 2
    /\ Is(cret, "buf", 1)
    /\ buffer = [id |-> 1, data |-> <<1, 2, 3, 4, 5, 6, 7, 8>>]

\* what a complete construction of the accessory client puts in its log
ConstructionLog ==
    << Event("chuck", "probe", 82, <<>>, TRUE),
       Event("chuck", "sleep", 0, <<100000>>, TRUE),
       Event("chuck", "write", 82, <<240, 85>>, TRUE),
       Event("chuck", "sleep", 0, <<100000>>, TRUE),
       Event("chuck", "write", 82, <<251, 0>>, TRUE) >>

\* the accessory client is being constructed, or was and has not read yet
ChuckConstructing == cpc.call # "none" /\ reads = 0

\* C11: the construction of the accessory client puts on the bus, in this
\* order, the settle wait, the write [0xF0, 0x55], the settle wait and the
\* write [0xFB, 0x00]; the lock is the client's from the first write to the
\* second without a release; a write that faults is the last event, leaves
\* the construction failed and the lock free; and the first read is called
\* only after the whole sequence.
C11_ConstructionSequence ==
    /\ [](ChuckConstructing =>
            /\ Len(clog) <= 5
            /\ \A i \in DOMAIN clog :
                  /\ clog[i].kind = ConstructionLog[i].kind
                  /\ clog[i].data = ConstructionLog[i].data
                  /\ ~clog[i].ok => /\ i = Len(clog)
                                    /\ cpc.call = "failed"
                                    /\ lock = "free"
                                    /\ cret.k = "raise"
            /\ cpc.call = "init" /\ Len(clog) \in {3, 4} => lock = "chuck"
            /\ cpc.call = "idle" => clog = ConstructionLog /\ lock = "free")
    /\ [][reads = 0 /\ reads' = 1 => clog = ConstructionLog]_vars

C11_Witness ==
    /\ cpc.call = "idle"
    /\ reads = 0
    /\ clog = ConstructionLog
    /\ lock = "free"
    /\ Is(cret, "none", 0)

\* C12: for every v in 0..65535, _signed_int16(v) is v when v < 32768 and
\* v - 65536 otherwise, and so lies in -32768..32767.
C12_SignedInt16 ==
    op.name = "signed_int16" =>
        /\ op.a \in 0..65535
        /\ pc = "idle"
        /\ ret.k = "int"
        /\ ret.v = (IF op.a < 32768 THEN op.a ELSE op.a - 65536)
        /\ ret.v \in -32768..32767

C12_Witness ==
    /\ op = Method("signed_int16", 32768, 0, 0)
    /\ Is(ret, "int", -32768)

\* the register an 8-bit method addresses and the value an 8-bit write
\* is given
Reg8(o) ==
    CASE o.name \in {"read_register8", "write_register8"} -> o.a
      [] o.name \in {"red", "red.setter"}     -> 13
      [] o.name \in {"green", "green.setter"} -> 14
      [] o.name \in {"blue", "blue.setter"}   -> 15

Arg8(o) == IF o.name = "write_register8" THEN o.b ELSE o.a

IsWrite8(o) ==
    o.name \in {"write_register8", "red.setter", "green.setter", "blue.setter"}

IsRead8(o) == o.name \in {"read_register8", "red", "green", "blue"}

\* C13: an 8-bit read of register a that returns right after an 8-bit write
\* of x to a that returned, has returned x mod 256; an 8-bit write puts on
\* the bus one write, of [a, x mod 256], and no read; an 8-bit read puts on
\* the bus the write of [a] and then, only after it, its read of one byte.
C13_Write8ThenRead8 ==
    /\ IsRead8(op) /\ pc = "idle" /\ ret.k = "int"
         /\ IsWrite8(prev.op) /\ prev.ret.k = "none" /\ Reg8(prev.op) = Reg8(op)
         => ret.v = Arg8(prev.op) % 256
    /\ IsWrite8(op) =>
          /\ Len(log) <= 1
          /\ \A i \in DOMAIN log :
                /\ log[i].kind = "write"
                /\ log[i].data = <<Reg8(op), Arg8(op) % 256>>
          /\ pc = "idle" /\ ret.k = "none" =>
                /\ Len(log) = 1
                /\ log[1].ok
                /\ regs[Reg8(op)] = Arg8(op) % 256
    /\ IsRead8(op) =>
          /\ Len(log) <= 2
          /\ \A i \in DOMAIN log :
                /\ i = 1 => log[i].kind = "write" /\ log[i].data = <<Reg8(op)>>
                /\ i = 2 => log[i].kind = "read" /\ log[1].ok
                /\ i = 2 /\ log[i].ok => Len(log[i].data) = 1
          /\ pc = "idle" /\ ret.k = "int" => Len(log) = 2 /\ log[2].data = <<ret.v>>

C13_Witness ==
    /\ op = Method("read_register8", 13, 0, 0)
    /\ prev.op = Method("write_register8", 13, 300, 0)
    /\ prev.ret.k = "none"
    /\ pc = "idle"
    /\ Is(ret, "int", 44)
    /\ log[1].data = <<13>>

\* the decimal numeral of a byte, by its number of digits
Numeral(b) ==
    LET d(k) == <<"0", "1", "2", "3", "4", "5", "6", "7", "8", "9">>[k + 1]
    IN  IF b < 10 THEN <<d(b)>>
        ELSE IF b < 100 THEN <<d(b \div 10), d(b % 10)>>
        ELSE <<d(b \div 100), d((b \div 10) % 10), d(b % 10)>>

\* C14: version, when it returns, has read two bytes [lsb, msb] from the
\* version register and returned "v" + lsb + "." + msb in decimal, the first
\* byte on the wire being the major number (bytes [1, 2] give "v1.2"); the
\* only write it puts on the bus is the register select [0x02].
C14_VersionString ==
    /\ Returned("version") =>
          /\ Len(log) = 2
          /\ log[2].kind = "read"
          /\ Len(log[2].data) = 2
          /\ ret.k = "str"
          /\ ret.v = <<"v">> \o Numeral(log[2].data[1]) \o <<".">>
                             \o Numeral(log[2].data[2])
          /\ log[2].data = <<1, 2>> => ret.v = <<"v", "1", ".", "2">>
    /\ op.name = "version" =>
          \A i \in DOMAIN log : log[i].kind = "write" => i = 1 /\ log[i].data = <<2>>

C14_Witness ==
    /\ Returned("version")
    /\ log[2].data = <<10, 255>>
    /\ ret.k = "str"
    /\ ret.v = <<"v", "1", "0", ".", "2", "5", "5">>

\* the properties read without a side effect, and the register each selects
PureGetters ==
    {"connected", "version", "time_since_last_movement", "time_since_last_press",
     "count", "red", "green", "blue", "red_connection", "green_connection",
     "blue_connection", "int_timeout"}

GetterRegister(name) ==
    CASE name = "connected"                -> 0
      [] name = "version"                  -> 2
      [] name = "time_since_last_movement" -> 9
      [] name = "time_since_last_press"    -> 11
      [] name = "count"                    -> 5
      [] name = "red"                      -> 13
      [] name = "green"                    -> 14
      [] name = "blue"                     -> 15
      [] name = "red_connection"           -> 16
      [] name = "green_connection"         -> 18
      [] name = "blue_connection"          -> 20
      [] name = "int_timeout"              -> 22

\* C15: a getter of the list puts on the bus the one-byte write that selects
\* its register and then a read, and nothing else, and no step of it changes
\* a device register; time_since_last_movement and time_since_last_press
\* return the two bytes read as the unsigned value lsb + 256 * msb.
C15_GettersWriteNothing ==
    /\ [](op.name \in PureGetters =>
            /\ Len(log) <= 2
            /\ \A i \in DOMAIN log :
                  /\ i = 1 => log[i].kind = "write"
                              /\ log[i].data = <<GetterRegister(op.name)>>
                  /\ i = 2 => log[i].kind = "read"
            /\ pc = "idle" /\ ret.k # "raise" => Len(log) = 2)
    /\ [][op'.name \in PureGetters => regs' = regs]_vars
    /\ [](\A name \in {"time_since_last_movement", "time_since_last_press"} :
            Returned(name) =>
                /\ ret.k = "int"
                /\ ret.v = log[2].data[1] + 256 * log[2].data[2]
                /\ ret.v \in 0..65535)

C15_Witness ==
    /\ Returned("time_since_last_press")
    /\ Is(ret, "int", 65535)
    /\ regs[TWIST_LAST_BUTTON_EVENT] = 255
    /\ regs[TWIST_LAST_BUTTON_EVENT + 1] = 255
    /\ Len(log) = 2

\* change_address has written a valid new address to the device, and the
\* device has stayed on its old address
NotReaddressed ==
    /\ op.name = "change_address"
    /\ op.a \in 8..119
    /\ Len(log) >= 1
    /\ log[1].ok
    /\ devAddr # op.a

\* C16 as stated: when the device has not re-addressed itself, the finished
\* change_address has rebound the handle to the new address.
C16_ReboundToUnansweredAddress ==
    NotReaddressed /\ pc = "idle" => device = op.a

\* C16 amended: when the device has not re-addressed itself, the rebind
\* step fails because nothing answers on the new address: change_address
\* returns False and the handle stays bound to the old address, where the
\* device still answers; the method called after it reaches the device and
\* does not fail unless a transfer of its own faults.
C16_UnansweredRebindKeepsOldAddress ==
    /\ NotReaddressed /\ pc = "idle" =>
          /\ Len(log) = 3
          /\ ~log[3].ok
          /\ ret.k = "bool"
          /\ ret.v = FALSE
          /\ device = deviceAtCall
          /\ device = devAddr
    /\ /\ prev.op.name = "change_address"
       /\ prev.op.a \in 8..119
       /\ prev.ret.k = "bool"
       /\ prev.ret.v = FALSE
       /\ faults = 0
       => /\ ret.k # "raise"
          /\ \A i \in DOMAIN log : IsTransfer(log[i]) => log[i].ok
          /\ op.name # "change_address" => device = devAddr

C16_Witness ==
    /\ Returned("difference")
    /\ prev.op = Method("change_address", 64, 0, 0)
    /\ prev.ret.k = "bool"
    /\ prev.ret.v = FALSE
    /\ faults = 0
    /\ regs[TWIST_CHANGE_ADDRESS] = 64
    /\ device = QWIIC_TWIST_ADDR
    /\ Len(log) = 3

\* C17: in every read of the accessory client, the wait between the write
\* of the register address and the read of the 8 bytes is at least 200
\* microseconds, whatever delay the client was constructed with.
C17_ReadWaitAtLeast200 ==
    reads >= 1 =>
        \A i \in DOMAIN clog :
            clog[i].kind = "sleep" => clog[i].data[1] >= 200

\* the register of a 16-bit property
Reg16(n) ==
    CASE n \in {"count", "count.setter"}                       -> 5
      [] n \in {"red_connection", "red_connection.setter"}     -> 16
      [] n \in {"green_connection", "green_connection.setter"} -> 18
      [] n \in {"blue_connection", "blue_connection.setter"}   -> 20
      [] n \in {"int_timeout", "int_timeout.setter"}           -> 22

IsSet16(o) ==
    o.name \in {"count.setter", "red_connection.setter", "green_connection.setter",
                "blue_connection.setter", "int_timeout.setter"}

IsGet16(o) ==
    o.name \in {"count", "red_connection", "green_connection", "blue_connection",
                "int_timeout"}

C19_BindingFollowsLastTrue ==
    /\ [](device = (IF lastTrue = 0 THEN QWIIC_TWIST_ADDR ELSE lastTrue))
    /\ [][device' # device =>
            /\ op.name = "change_address"
            /\ op' = op
            /\ pc' = "idle"
            /\ ret'.k = "bool"
            /\ ret'.v = TRUE
            /\ device' = op.a]_vars
    /\ [](pc = "idle" /\ ret.k = "raise" => device = deviceAtCall)
    /\ [](op.name = "change_address" /\ pc = "idle" /\ ret.k = "bool" =>
            device = (IF ret.v THEN op.a ELSE deviceAtCall))

C19_Witness ==
    /\ prev.op = Method("change_address", 64, 0, 0)
    /\ prev.ret.k = "bool"
    /\ prev.ret.v = TRUE
    /\ op.name = "difference"
    /\ pc = "idle"
    /\ ret.k = "raise"
    /\ device = 64
    /\ lastTrue = 64

\* C20: a status bit that is set is cleared only by the step that ends its
\* own accessor with True, or by clear_interrupts: no other step, and in
\* particular no write-back of an accessor of another bit, clears it.
C20_NoEventLost ==
    [][\A name \in {"moved", "pressed", "clicked"} :
          /\ BitOf(regs[TWIST_STATUS], FlagBit(name)) = 1
          /\ BitOf(regs'[TWIST_STATUS], FlagBit(name)) = 0
          => \/ op.name = "clear_interrupts"
             \/ /\ op.name = name
                /\ ret'.k = "bool"
                /\ ret'.v = TRUE]_vars

====
